---- MODULE Spec2Model ----
(***************************************************************************)
(* SheSafe: the arming/alert controller (src/App.tsx) and the live         *)
(* transport session SafetySentinel (src/services/geminiService.ts).       *)
(*                                                                         *)
(* The program is single-threaded and event driven.  One action of this    *)
(* module is one run-to-completion step of the JavaScript event loop: an   *)
(* event handler (click, transport event, audio frame) or the continuation *)
(* of an `await` together with every continuation that follows it without  *)
(* a real suspension (awaiting an async function that did not suspend, or  *)
(* a promise that is already resolved, resumes in a microtask, before any  *)
(* other event is dispatched).                                             *)
(***************************************************************************)
EXTENDS Integers, Sequences, FiniteSets, TLC

\* ------------------------------------------------------------------ bounds
MaxSessions == 2
MaxInvocations == 2
MaxCalls == 2

Sessions == 1..MaxSessions

\* ------------------------------------------------------------- the inputs
DistressTool == "triggerEmergency"
ToolNames == {DistressTool, "otherTool"}

\* DOMException names getUserMedia rejects with, and any other Error.
ErrorNames == {"NotAllowedError", "NotFoundError", "NotReadableError", "Error"}
Samples == {0, 200}
GeoOutcomes == {"ok", "denied", "timeout"}
\* The photo: taken, the video or canvas element missing, no 2d context, or
\* drawImage/toDataURL throwing.
ImgOutcomes == {"ok", "noElement", "noContext", "drawThrows"}

RECURSIVE SeqsUpTo(_, _)
SeqsUpTo(S, n) ==
    IF n = 0 THEN {<<>>}
    ELSE LET shorter == SeqsUpTo(S, n - 1)
         IN shorter \cup {Append(q, x) : q \in {r \in shorter : Len(r) = n - 1}, x \in S}

\* A message carries one or more function calls.  `throws` says whether the
\* client's onEmergencyTriggered callback throws synchronously on that call.
CallsOf(throwing) == [name : ToolNames, throws : throwing]
MessagesOf(throwing) == SeqsUpTo(CallsOf(throwing), MaxCalls) \ {<<>>}
\* The App's callback is an async function: it never throws synchronously.
AppMessages == MessagesOf({FALSE})
\* A SentinelCallbacks client whose trigger callback throws on some call.
ThrowingMessages == {m \in MessagesOf(BOOLEAN) :
                        \E j \in 1..Len(m) : m[j].name = DistressTool /\ m[j].throws}

VARIABLES
    app,            \* React state of App: isArmed, status, contact, logs, volume, ...
    sentinelRef,    \* sentinelRef.current: 0 is null, else the session
    wakeLockRef,    \* wakeLockRef.current: 0 is null, else the lock
    videoSrc,       \* videoRef.current.srcObject: 0 is none, else the camera stream
    pc,             \* per arm attempt: where its toggleArm invocation is
    silentAt,       \* per arm attempt: silentMode as closed over by its callbacks
    cam,            \* per arm attempt: its camera stream
    lock,           \* per session: the wake lock its onConnect requested
    sentinel,       \* per session: the fields of its SafetySentinel
    conn,           \* per session: the remote connection of ai.live.connect
    calls,          \* the name of every function call received so far, in order
    acks,           \* ids of the calls acknowledged (sendToolResponse), in order
    pipelines,      \* alert pipelines suspended in captureEvidence
    notifications,  \* ids of the calls whose "ALERT SENT" was emitted
    lastFrame,      \* the circumstances of the latest sendRealtimeInput made
    rethrown,       \* an exception escaped handleMessage into the transport
    onErrorCalls    \* per session: how often its callbacks.onError was invoked

vars == <<app, sentinelRef, wakeLockRef, videoSrc, pc, silentAt, cam, lock,
          sentinel, conn, calls, acks, pipelines, notifications, lastFrame, rethrown,
          onErrorCalls>>

\* ------------------------------------------------------------- App state
NoError == [show |-> FALSE, title |-> "", message |-> ""]

AppInit ==
    [isArmed |-> FALSE, status |-> "IDLE",
     contact |-> [name |-> FALSE, phone |-> FALSE],   \* TRUE: the field is non-empty
     logs |-> <<>>, volume |-> 0, silentMode |-> FALSE, blackoutMode |-> FALSE,
     errorState |-> NoError]

NoFrame == [sentinel |-> 0, afterStop |-> FALSE, afterError |-> FALSE]

NewSentinel ==
    [isConnected |-> FALSE, mediaStream |-> "null", audioContext |-> "null",
     stopCalled |-> FALSE]

Init ==
    /\ app = AppInit
    /\ sentinelRef = 0
    /\ wakeLockRef = 0
    /\ videoSrc = 0
    /\ pc = [i \in Sessions |-> "none"]
    /\ silentAt = [i \in Sessions |-> FALSE]
    /\ cam = [i \in Sessions |-> "none"]
    /\ lock = [i \in Sessions |-> "none"]
    /\ sentinel = [i \in Sessions |-> NewSentinel]
    /\ conn = [i \in Sessions |-> "none"]
    /\ calls = <<>>
    /\ acks = <<>>
    /\ pipelines = {}
    /\ notifications = {}
    /\ lastFrame = NoFrame
    /\ rethrown = FALSE
    /\ onErrorCalls = [i \in Sessions |-> 0]

\* ------------------------------------------------- App.tsx: the operations

\* releaseWakeLock: WakeLockSentinel.release() releases at the call and returns
\* a resolved promise, so the reference is cleared in the same step.
ReleaseWakeLock ==
    /\ wakeLockRef' = 0
    /\ lock' = IF wakeLockRef # 0 THEN [lock EXCEPT ![wakeLockRef] = "released"] ELSE lock

\* handleError without the status reset.
handleErrorKeepsStatus(a, title, message) ==
    [a EXCEPT !.errorState = [show |-> TRUE, title |-> title, message |-> message],
              !.isArmed = FALSE]

\* handleError: the React state it sets (it also calls releaseWakeLock).
handleError(a, title, message) ==
    [a EXCEPT !.errorState = [show |-> TRUE, title |-> title, message |-> message],
              !.status = "IDLE",
              !.isArmed = FALSE]

SetupMessage == "Please enter an emergency contact name and phone number."

CameraMessage(name) ==
    CASE name = "NotAllowedError" -> "You have blocked camera access."
      [] name = "NotFoundError" -> "No camera found on this device."
      [] name = "NotReadableError" -> "Your camera is currently in use by another application."
      [] OTHER -> "We need camera access to capture evidence during an emergency."

\* start()'s catch block: the message handed to callbacks.onError.
MicMessage(name) ==
    CASE name = "NotAllowedError" -> "Microphone permission was denied."
      [] name = "NotFoundError" -> "No microphone found."
      [] name = "NotReadableError" -> "Microphone is in use by another app."
      [] OTHER -> "error.message"

\* triggerAlert up to its first await: the visual feedback decision.
triggerAlert(a, silent) ==
    IF ~silent THEN [a EXCEPT !.status = "DANGER", !.blackoutMode = FALSE] ELSE a

\* A captureEvidence whose photo part has no try/catch: a throwing draw
\* rejects the whole capture.
captureEvidenceUnguarded(geo, img) ==
    [location |-> IF geo = "ok" THEN "lat, lon" ELSE "Unknown Location",
     imageUrl |-> IF img = "ok" THEN "data:image/jpeg" ELSE "",
     raised |-> img = "drawThrows"]

\* captureEvidence: the geolocation lookup is awaited inside a try/catch that
\* keeps the default location; the photo is taken inside its own guard and
\* try/catch that keep the empty image.  `raised` says whether the returned
\* promise rejects.
captureEvidence(geo, img) ==
    [location |-> IF geo = "ok" THEN "lat, lon" ELSE "Unknown Location",
     imageUrl |-> IF img = "ok" THEN "data:image/jpeg" ELSE "",
     raised |-> FALSE]

\* A log update that puts the new entry behind the previous ones.
AppendLog(prev, newLog) == prev \o <<newLog>>

\* A log update that does not build on the previous log.
ReplaceLog(prev, newLog) == <<newLog>>

\* setLogs(prev => [newLog, ...prev])
PrependLog(prev, newLog) == <<newLog>> \o prev

\* ------------------------------------------ geminiService.ts: the session

\* A stop() that forgets the stream it finds already stopped and the context
\* it finds already closing.
stopForgets(s) ==
    [s EXCEPT !.isConnected = FALSE,
              !.mediaStream = IF @ = "live" THEN "stopped" ELSE "null",
              !.audioContext = IF @ = "running" THEN "closing" ELSE "null",
              !.stopCalled = TRUE]

\* A stop() that tears the audio graph down but leaves the guard flag set.
stopKeepsFlag(s) ==
    [s EXCEPT !.mediaStream = IF @ = "live" THEN "stopped" ELSE @,
              !.audioContext = IF @ = "running" THEN "closing" ELSE @,
              !.stopCalled = TRUE]

\* stop(): flips the guard flag, stops the tracks, disconnects the processor
\* and asks the audio context to close (close() settles later).  The remote
\* connection is not touched.
stop(s) ==
    [s EXCEPT !.isConnected = FALSE,
              !.mediaStream = IF @ = "live" THEN "stopped" ELSE @,
              !.audioContext = IF @ = "running" THEN "closing" ELSE @,
              !.stopCalled = TRUE]

\* A loop that acknowledges every call, whatever its name.
RECURSIVE handleMessageAcksAll(_, _)
handleMessageAcksAll(m, j) ==
    IF j > Len(m) THEN [trig |-> <<>>, ack |-> <<>>, thrown |-> FALSE]
    ELSE LET r == handleMessageAcksAll(m, j + 1)
         IN [trig |-> IF m[j].name = DistressTool THEN <<j>> \o r.trig ELSE r.trig,
             ack |-> <<j>> \o r.ack, thrown |-> r.thrown]

\* handleMessage's loop over message.toolCall.functionCalls from call j on:
\* the calls whose trigger callback was invoked, the calls whose
\* acknowledgment was scheduled, and whether the callback's exception left
\* the loop.
RECURSIVE handleMessage(_, _)
handleMessage(m, j) ==
    IF j > Len(m) THEN [trig |-> <<>>, ack |-> <<>>, thrown |-> FALSE]
    ELSE IF m[j].name # DistressTool THEN handleMessage(m, j + 1)
    ELSE IF m[j].throws THEN [trig |-> <<j>>, ack |-> <<>>, thrown |-> TRUE]
    ELSE LET r == handleMessage(m, j + 1)
         IN [trig |-> <<j>> \o r.trig, ack |-> <<j>> \o r.ack, thrown |-> r.thrown]

\* ----------------------------------------------------------- UI handlers
\* The contact form (setContact) is read by toggleArm alone, so what the form
\* holds is an input of the click: the arm actions below take it as `c` and
\* store it.  Each field is TRUE when non-empty.
Contacts == [name : BOOLEAN, phone : BOOLEAN]

ToggleSilentMode ==
    /\ ~app.isArmed
    /\ app' = [app EXCEPT !.silentMode = ~@]
    /\ UNCHANGED <<sentinelRef, wakeLockRef, videoSrc, pc, silentAt, cam, lock, sentinel,
                   conn, calls, acks, pipelines, notifications, lastFrame, rethrown,
                   onErrorCalls>>

ScreenOff ==
    /\ app.isArmed
    /\ ~app.blackoutMode
    /\ app' = [app EXCEPT !.blackoutMode = TRUE]
    /\ UNCHANGED <<sentinelRef, wakeLockRef, videoSrc, pc, silentAt, cam, lock, sentinel,
                   conn, calls, acks, pipelines, notifications, lastFrame, rethrown,
                   onErrorCalls>>

TapToWake ==
    /\ app.blackoutMode
    /\ app' = [app EXCEPT !.blackoutMode = FALSE]
    /\ UNCHANGED <<sentinelRef, wakeLockRef, videoSrc, pc, silentAt, cam, lock, sentinel,
                   conn, calls, acks, pipelines, notifications, lastFrame, rethrown,
                   onErrorCalls>>

DismissError ==
    /\ app.errorState.show
    /\ app' = [app EXCEPT !.errorState = NoError]
    /\ UNCHANGED <<sentinelRef, wakeLockRef, videoSrc, pc, silentAt, cam, lock, sentinel,
                   conn, calls, acks, pipelines, notifications, lastFrame, rethrown,
                   onErrorCalls>>

\* ------------------------------------------------------------- toggleArm

\* toggleArm with isArmed true.  releaseWakeLock does not suspend, so the
\* state updates after its await run before any other event.
Disarm ==
    /\ app.isArmed
    /\ sentinel' = IF sentinelRef # 0
                   THEN [sentinel EXCEPT ![sentinelRef] = stop(@)]
                   ELSE sentinel
    /\ ReleaseWakeLock
    /\ app' = [app EXCEPT !.isArmed = FALSE, !.status = "IDLE", !.volume = 0,
                          !.blackoutMode = FALSE]
    /\ UNCHANGED <<sentinelRef, videoSrc, pc, silentAt, cam, conn, calls, acks,
                   pipelines, notifications, lastFrame, rethrown, onErrorCalls>>

\* toggleArm with isArmed false and no complete contact.
ArmRefused(c) ==
    /\ ~app.isArmed
    /\ ~(c.name /\ c.phone)
    /\ app' = handleError([app EXCEPT !.contact = c], "Setup Required", SetupMessage)
    /\ ReleaseWakeLock
    /\ UNCHANGED <<sentinelRef, videoSrc, pc, silentAt, cam, sentinel, conn, calls, acks,
                   pipelines, notifications, lastFrame, rethrown, onErrorCalls>>

\* toggleArm with isArmed false, up to the await of the camera's getUserMedia.
\* The callbacks built later in this invocation close over this render's
\* silentMode.
ArmBegin(i, c) ==
    /\ ~app.isArmed
    /\ c.name /\ c.phone
    /\ pc[i] = "none"
    /\ \A j \in Sessions : j < i => pc[j] # "none"
    /\ app' = [app EXCEPT !.contact = c, !.status = "CONNECTING"]
    /\ pc' = [pc EXCEPT ![i] = "awaitCamera"]
    /\ silentAt' = [silentAt EXCEPT ![i] = app.silentMode]
    /\ cam' = [cam EXCEPT ![i] = "pending"]
    /\ UNCHANGED <<sentinelRef, wakeLockRef, videoSrc, lock, sentinel, conn, calls, acks,
                   pipelines, notifications, lastFrame, rethrown, onErrorCalls>>

\* The camera stream arrives: it is attached to the video element, the
\* session is constructed and start() runs up to the microphone's getUserMedia.
CameraGranted(i) ==
    /\ pc[i] = "awaitCamera"
    /\ cam' = [cam EXCEPT ![i] = "live"]
    /\ videoSrc' = i
    /\ sentinelRef' = i
    /\ sentinel' = [sentinel EXCEPT ![i] = NewSentinel]
    /\ pc' = [pc EXCEPT ![i] = "awaitMic"]
    /\ UNCHANGED <<app, wakeLockRef, silentAt, lock, conn, calls, acks, pipelines,
                   notifications, lastFrame, rethrown, onErrorCalls>>

\* A camera failure whose catch block does not return: the error is shown and
\* the attempt goes on to construct the session and request the microphone.
CameraFailedGoesOn(i, name) ==
    /\ pc[i] = "awaitCamera"
    /\ cam' = [cam EXCEPT ![i] = "failed"]
    /\ app' = handleError(app, "Camera Permission Failed", CameraMessage(name))
    /\ ReleaseWakeLock
    /\ sentinelRef' = i
    /\ sentinel' = [sentinel EXCEPT ![i] = NewSentinel]
    /\ pc' = [pc EXCEPT ![i] = "awaitMic"]
    /\ UNCHANGED <<videoSrc, silentAt, conn, calls, acks, pipelines, notifications,
                   lastFrame, rethrown, onErrorCalls>>

\* The camera request is rejected: the catch block surfaces the error and
\* toggleArm returns.
CameraFailed(i, name) ==
    /\ pc[i] = "awaitCamera"
    /\ cam' = [cam EXCEPT ![i] = "failed"]
    /\ app' = handleError(app, "Camera Permission Failed", CameraMessage(name))
    /\ ReleaseWakeLock
    /\ pc' = [pc EXCEPT ![i] = "done"]
    /\ UNCHANGED <<sentinelRef, videoSrc, silentAt, sentinel, conn, calls, acks, pipelines,
                   notifications, lastFrame, rethrown, onErrorCalls>>

\* The microphone stream arrives: start() builds the audio graph, issues
\* ai.live.connect, registers onaudioprocess and returns; toggleArm resumes
\* and sets the armed flag.
MicGranted(i) ==
    /\ pc[i] = "awaitMic"
    /\ sentinel' = [sentinel EXCEPT ![i].mediaStream = "live", ![i].audioContext = "running"]
    /\ conn' = [conn EXCEPT ![i] = "connecting"]
    /\ app' = [app EXCEPT !.isArmed = TRUE]
    /\ pc' = [pc EXCEPT ![i] = "done"]
    /\ UNCHANGED <<sentinelRef, wakeLockRef, videoSrc, silentAt, cam, lock, calls, acks,
                   pipelines, notifications, lastFrame, rethrown, onErrorCalls>>

\* A start() whose catch block swallows the failure without reporting it.
MicFailedSilently(i, name) ==
    /\ pc[i] = "awaitMic"
    /\ app' = [app EXCEPT !.isArmed = TRUE]
    /\ pc' = [pc EXCEPT ![i] = "done"]
    /\ UNCHANGED <<sentinelRef, wakeLockRef, videoSrc, silentAt, cam, lock, sentinel,
                   conn, calls, acks, pipelines, notifications, lastFrame, rethrown,
                   onErrorCalls>>

\* The microphone is refused: start()'s catch reports through onError, which
\* is handleError; start() then returns normally and toggleArm resumes.
MicFailed(i, name) ==
    /\ pc[i] = "awaitMic"
    /\ app' = [handleError(app, "Sentinel System Error", MicMessage(name))
                 EXCEPT !.isArmed = TRUE]
    /\ ReleaseWakeLock
    /\ onErrorCalls' = [onErrorCalls EXCEPT ![i] = @ + 1]
    /\ pc' = [pc EXCEPT ![i] = "done"]
    /\ UNCHANGED <<sentinelRef, videoSrc, silentAt, cam, sentinel, conn, calls, acks,
                   pipelines, notifications, lastFrame, rethrown>>

\* ------------------------------------------------------ transport events

\* An onConnect that sets ARMED and requests no wake lock.
OnOpenWithoutWakeLock(i) ==
    /\ conn[i] = "connecting"
    /\ conn' = [conn EXCEPT ![i] = "open"]
    /\ sentinel' = [sentinel EXCEPT ![i].isConnected = TRUE]
    /\ app' = [app EXCEPT !.status = "ARMED"]
    /\ UNCHANGED <<sentinelRef, wakeLockRef, videoSrc, pc, silentAt, cam, lock, calls,
                   acks, pipelines, notifications, lastFrame, rethrown, onErrorCalls>>

\* onopen, then the App's onConnect: ARMED and a wake-lock request.
OnOpen(i) ==
    /\ conn[i] = "connecting"
    /\ conn' = [conn EXCEPT ![i] = "open"]
    /\ sentinel' = [sentinel EXCEPT ![i].isConnected = TRUE]
    /\ app' = [app EXCEPT !.status = "ARMED"]
    /\ lock' = [lock EXCEPT ![i] = "pending"]
    /\ UNCHANGED <<sentinelRef, wakeLockRef, videoSrc, pc, silentAt, cam, calls, acks,
                   pipelines, notifications, lastFrame, rethrown, onErrorCalls>>

\* requestWakeLock resumes with the lock, or its catch logs the refusal.
WakeLockGranted(i) ==
    /\ lock[i] = "pending"
    /\ lock' = [lock EXCEPT ![i] = "held"]
    /\ wakeLockRef' = i
    /\ UNCHANGED <<app, sentinelRef, videoSrc, pc, silentAt, cam, sentinel, conn, calls,
                   acks, pipelines, notifications, lastFrame, rethrown, onErrorCalls>>

WakeLockRefused(i) ==
    /\ lock[i] = "pending"
    /\ lock' = [lock EXCEPT ![i] = "refused"]
    /\ UNCHANGED <<app, sentinelRef, wakeLockRef, videoSrc, pc, silentAt, cam, sentinel,
                   conn, calls, acks, pipelines, notifications, lastFrame, rethrown,
                   onErrorCalls>>

\* An onDisconnect that returns the controller to IDLE.
OnCloseDisarms(i) ==
    /\ conn[i] \in {"open", "errored"}
    /\ conn' = [conn EXCEPT ![i] = "closed"]
    /\ sentinel' = [sentinel EXCEPT ![i].isConnected = FALSE]
    /\ app' = [app EXCEPT !.status = "IDLE", !.isArmed = FALSE]
    /\ UNCHANGED <<sentinelRef, wakeLockRef, videoSrc, pc, silentAt, cam, lock, calls,
                   acks, pipelines, notifications, lastFrame, rethrown, onErrorCalls>>

\* onclose, then the App's onDisconnect, which changes nothing.
OnClose(i) ==
    /\ conn[i] \in {"open", "errored"}
    /\ conn' = [conn EXCEPT ![i] = "closed"]
    /\ sentinel' = [sentinel EXCEPT ![i].isConnected = FALSE]
    /\ UNCHANGED <<app, sentinelRef, wakeLockRef, videoSrc, pc, silentAt, cam, lock, calls,
                   acks, pipelines, notifications, lastFrame, rethrown, onErrorCalls>>

\* onerror, then the App's onError, which is handleError.
OnError(i) ==
    /\ conn[i] \in {"connecting", "open"}
    /\ conn' = [conn EXCEPT ![i] = "errored"]
    /\ app' = handleError(app, "Sentinel System Error", "Connection error")
    /\ ReleaseWakeLock
    /\ onErrorCalls' = [onErrorCalls EXCEPT ![i] = @ + 1]
    /\ UNCHANGED <<sentinelRef, videoSrc, pc, silentAt, cam, sentinel, calls, acks,
                   pipelines, notifications, lastFrame, rethrown>>

\* The trigger callback of the App run once per call it was invoked for.
RECURSIVE Triggered(_, _, _)
Triggered(a, silent, n) ==
    IF n = 0 THEN a ELSE Triggered(triggerAlert(a, silent), silent, n - 1)

\* Acknowledgments that name the call after the one that was handled.
IdsAhead(base, js) == [k \in 1..Len(js) |-> base + js[k] + 1]

\* The ids acknowledged for the calls at places js of a message that follows
\* `base` calls: fc.id of each.
Ids(base, js) == [k \in 1..Len(js) |-> base + js[k]]

\* onmessage with a tool call: handleMessage invokes the trigger callback for
\* each matching call and schedules its acknowledgment on the resolved
\* session promise; the acknowledgments go out, in order, as soon as the
\* handler returns.  Each triggerAlert started suspends in captureEvidence,
\* at the await of the geolocation lookup: it has taken the visual branch or
\* not (`loud`), and the photo code after the await has not run (`photo`).
\* A call's id is its place among the calls received.
OnMessage(i, m) ==
    /\ conn[i] = "open"
    /\ Len(calls) + Len(m) <= MaxInvocations
    /\ LET r == handleMessage(m, 1)
           base == Len(calls)
       IN /\ calls' = calls \o [j \in 1..Len(m) |-> m[j].name]
          /\ acks' = acks \o Ids(base, r.ack)
          /\ app' = Triggered(app, silentAt[i], Len(r.ack))
          /\ pipelines' = pipelines \cup
                 {[call |-> base + r.ack[k], sentinel |-> i,
                   loud |-> ~silentAt[i], photo |-> "notTaken"] : k \in 1..Len(r.ack)}
          /\ rethrown' = (rethrown \/ r.thrown)
    /\ UNCHANGED <<sentinelRef, wakeLockRef, videoSrc, pc, silentAt, cam, lock, sentinel,
                   conn, notifications, lastFrame, onErrorCalls>>

\* A pipeline whose log entry takes isSilent from the setting in force when
\* the entry is written.
EvidenceSettledReadsSetting(p, geo, img) ==
    /\ p \in pipelines
    /\ LET evidence == captureEvidence(geo, img)
           newLog == [call |-> p.call, location |-> evidence.location,
                      imageUrl |-> evidence.imageUrl, isSilent |-> app.silentMode]
       IN IF evidence.raised
          THEN UNCHANGED <<app, notifications>>
          ELSE /\ app' = [app EXCEPT !.logs = PrependLog(@, newLog)]
               /\ notifications' = notifications \cup {p.call}
    /\ pipelines' = pipelines \ {p}
    /\ UNCHANGED <<sentinelRef, wakeLockRef, videoSrc, pc, silentAt, cam, lock, sentinel,
                   conn, calls, acks, lastFrame, rethrown, onErrorCalls>>

\* A pipeline that gives up when it resumes on a disarmed system.
EvidenceSettledWhileArmed(p, geo, img) ==
    /\ p \in pipelines
    /\ app.isArmed
    /\ LET evidence == captureEvidence(geo, img)
           newLog == [call |-> p.call, location |-> evidence.location,
                      imageUrl |-> evidence.imageUrl, isSilent |-> silentAt[p.sentinel]]
       IN /\ app' = [app EXCEPT !.logs = PrependLog(@, newLog)]
          /\ notifications' = notifications \cup {p.call}
    /\ pipelines' = pipelines \ {p}
    /\ UNCHANGED <<sentinelRef, wakeLockRef, videoSrc, pc, silentAt, cam, lock, sentinel,
                   conn, calls, acks, lastFrame, rethrown, onErrorCalls>>

\* The geolocation lookup of a pipeline settles; the photo is taken in the
\* same step, the log entry is prepended and the notification is emitted.
\* Were captureEvidence to reject, triggerAlert would end at its await.
EvidenceSettled(p, geo, img) ==
    /\ p \in pipelines
    /\ LET evidence == captureEvidence(geo, img)
           newLog == [call |-> p.call, location |-> evidence.location,
                      imageUrl |-> evidence.imageUrl, isSilent |-> silentAt[p.sentinel]]
       IN IF evidence.raised
          THEN UNCHANGED <<app, notifications>>
          ELSE /\ app' = [app EXCEPT !.logs = PrependLog(@, newLog)]
               /\ notifications' = notifications \cup {p.call}
    /\ pipelines' = pipelines \ {p}
    /\ UNCHANGED <<sentinelRef, wakeLockRef, videoSrc, pc, silentAt, cam, lock, sentinel,
                   conn, calls, acks, lastFrame, rethrown, onErrorCalls>>

\* ------------------------------------------------------------ audio frames

\* onaudioprocess: frames are delivered while the context runs and while its
\* close() is still in progress.  Nothing happens unless isConnected.
OnAudioProcess(i, average) ==
    /\ sentinel[i].audioContext \in {"running", "closing"}
    /\ IF ~sentinel[i].isConnected
       THEN UNCHANGED <<app, lastFrame>>
       ELSE /\ lastFrame' = [sentinel |-> i, afterStop |-> sentinel[i].stopCalled,
                                 afterError |-> conn[i] = "errored"]
            /\ app' = [app EXCEPT !.volume = average]
    /\ UNCHANGED <<sentinelRef, wakeLockRef, videoSrc, pc, silentAt, cam, lock, sentinel,
                   conn, calls, acks, pipelines, notifications, rethrown, onErrorCalls>>

\* audioContext.close() settles: no frame is delivered afterwards.
ContextClosed(i) ==
    /\ sentinel[i].audioContext = "closing"
    /\ sentinel' = [sentinel EXCEPT ![i].audioContext = "closed"]
    /\ UNCHANGED <<app, sentinelRef, wakeLockRef, videoSrc, pc, silentAt, cam, lock, conn,
                   calls, acks, pipelines, notifications, lastFrame, rethrown,
                   onErrorCalls>>

\* ------------------------------------------------------ the specifications

\* The display controls.
Controls ==
    \/ ToggleSilentMode
    \/ ScreenOff
    \/ TapToWake
    \/ DismissError

\* Disarming, a refused arm request, and the platform's answers to an arm
\* attempt under way.
Arming ==
    \/ Disarm
    \/ \E c \in Contacts : ArmRefused(c)
    \/ \E i \in Sessions, name \in ErrorNames : CameraFailed(i, name)
    \/ \E i \in Sessions : CameraGranted(i)
    \/ \E i \in Sessions, name \in ErrorNames : MicFailed(i, name)
    \/ \E i \in Sessions : MicGranted(i)

\* The remote connection's events, the wake lock's, and the audio graph's.
Transport ==
    \/ \E i \in Sessions : OnOpen(i)
    \/ \E i \in Sessions : WakeLockGranted(i)
    \/ \E i \in Sessions : WakeLockRefused(i)
    \/ \E i \in Sessions : OnClose(i)
    \/ \E i \in Sessions : OnError(i)
    \/ \E i \in Sessions, average \in Samples : OnAudioProcess(i, average)
    \/ \E i \in Sessions : ContextClosed(i)

\* Spec: one arm attempt with every control, and up to MaxInvocations tool
\* calls, up to MaxCalls of them in one message, so that alert pipelines
\* overlap; every evidence capture succeeds.
Next ==
    \/ Controls
    \/ Arming
    \/ Transport
    \/ \E c \in Contacts : ArmBegin(1, c)
    \/ \E i \in Sessions, m \in AppMessages : OnMessage(i, m)
    \/ \E p \in pipelines : EvidenceSettled(p, "ok", "ok")

Spec == Init /\ [][Next]_vars

\* AlertSpec: one arm attempt and its session's events, with up to
\* MaxInvocations tool calls whose alert pipelines overlap, each with every
\* outcome of its evidence capture; the setup controls and the audio frames
\* are left out.
AlertNext ==
    \/ Arming
    \/ \E c \in Contacts : ArmBegin(1, c)
    \/ \E i \in Sessions : OnOpen(i)
    \/ \E i \in Sessions : WakeLockGranted(i)
    \/ \E i \in Sessions : WakeLockRefused(i)
    \/ \E i \in Sessions : OnClose(i)
    \/ \E i \in Sessions : OnError(i)
    \/ \E i \in Sessions : ContextClosed(i)
    \/ \E i \in Sessions, m \in AppMessages : OnMessage(i, m)
    \/ \E p \in pipelines, geo \in GeoOutcomes, img \in ImgOutcomes :
            EvidenceSettled(p, geo, img)

AlertSpec == Init /\ [][AlertNext]_vars

\* AlertLiveSpec: AlertSpec in which the geolocation lookup of every pending
\* pipeline settles: getCurrentPosition is given a 5 s timeout, so it calls
\* back with a position or with an error.
AlertLiveSpec ==
    /\ AlertSpec
    /\ \A k \in 1..MaxInvocations :
          WF_vars(\E p \in pipelines, geo \in GeoOutcomes, img \in ImgOutcomes :
                     p.call = k /\ EvidenceSettled(p, geo, img))

\* RearmSpec: up to MaxSessions arm attempts, one after another or
\* overlapping, with their connections' and wake locks' events; no audio
\* frame and no tool call arrives.
RearmNext ==
    \/ DismissError
    \/ Arming
    \/ \E i \in Sessions, c \in Contacts : ArmBegin(i, c)
    \/ \E i \in Sessions : OnOpen(i)
    \/ \E i \in Sessions : WakeLockGranted(i)
    \/ \E i \in Sessions : WakeLockRefused(i)
    \/ \E i \in Sessions : OnClose(i)
    \/ \E i \in Sessions : OnError(i)
    \/ \E i \in Sessions : ContextClosed(i)

RearmSpec == Init /\ [][RearmNext]_vars

\* GrantedSpec: one arm request with a complete contact whose camera request,
\* microphone request and remote connection succeed, with the display
\* controls, the audio frames and a later close of the connection; the
\* wake-lock request is granted or refused.  A getUserMedia request settles,
\* the connection under way opens, and the wake-lock request settles.
GrantedNext ==
    \/ ToggleSilentMode
    \/ ScreenOff
    \/ TapToWake
    \/ \E c \in Contacts : ArmBegin(1, c)
    \/ \E i \in Sessions : CameraGranted(i)
    \/ \E i \in Sessions : MicGranted(i)
    \/ \E i \in Sessions : OnOpen(i)
    \/ \E i \in Sessions : WakeLockGranted(i)
    \/ \E i \in Sessions : WakeLockRefused(i)
    \/ \E i \in Sessions : OnClose(i)
    \/ \E i \in Sessions, average \in Samples : OnAudioProcess(i, average)

GrantedSpec ==
    /\ Init
    /\ [][GrantedNext]_vars
    /\ \A i \in Sessions :
          /\ WF_vars(CameraGranted(i))
          /\ WF_vars(MicGranted(i))
          /\ WF_vars(OnOpen(i))
          /\ WF_vars(WakeLockGranted(i) \/ WakeLockRefused(i))

\* SessionSpec: Spec with the session driven by a SentinelCallbacks client
\* whose trigger callback may throw (the class is exported and takes any
\* callbacks).
SessionNext ==
    \/ Next
    \/ \E i \in Sessions, m \in ThrowingMessages : OnMessage(i, m)

SessionSpec == Init /\ [][SessionNext]_vars

\* ================================================================ claims

\* The distress calls received so far, by id.
DistressCalls == {k \in 1..Len(calls) : calls[k] = DistressTool}
AcksOf(k) == {x \in 1..Len(acks) : acks[x] = k}
LogsOf(k) == {x \in 1..Len(app.logs) : app.logs[x].call = k}
InProgress(i) == pc[i] \in {"awaitCamera", "awaitMic"}

\* C1: every distress tool invocation received yields exactly one
\* acknowledgment and exactly one alert-log entry: each is acknowledged once,
\* each is logged once or still has its pipeline suspended in evidence
\* capture, nothing else is acknowledged or logged, and once no pipeline is
\* pending the acknowledgments and the log both number the invocations
\* received, also when pipelines overlap.
C1_OneAckOneLogPerInvocation ==
    /\ \A k \in DistressCalls : Cardinality(AcksOf(k)) = 1
    /\ \A x \in 1..Len(acks) : acks[x] \in DistressCalls
    /\ \A k \in DistressCalls :
          Cardinality(LogsOf(k)) + Cardinality({p \in pipelines : p.call = k}) = 1
    /\ \A x \in 1..Len(app.logs) : app.logs[x].call \in DistressCalls
    /\ pipelines = {} =>
          /\ Len(acks) = Cardinality(DistressCalls)
          /\ Len(app.logs) = Cardinality(DistressCalls)

\* Two invocations whose pipelines overlapped and settled in the other order.
C1_Witness ==
    /\ Len(calls) = 2 /\ DistressCalls = {1, 2}
    /\ pipelines = {}
    /\ Len(app.logs) = 2 /\ app.logs[1].call = 1 /\ app.logs[2].call = 2
    /\ acks = <<1, 2>>

\* A step in which handleError ran.
ErrorStep ==
    \/ \E c \in Contacts : ArmRefused(c)
    \/ \E i \in Sessions, name \in ErrorNames : CameraFailed(i, name)
    \/ \E i \in Sessions, name \in ErrorNames : MicFailed(i, name)
    \/ \E i \in Sessions : OnError(i)

\* C2: once the operation in which handleError ran has finished, the system
\* is at rest: status IDLE, armed flag false, no wake lock referenced.
C2_ErrorLeavesDisarmed ==
    [][ErrorStep =>
          (app'.status = "IDLE" /\ ~app'.isArmed /\ wakeLockRef' = 0)]_vars

\* C3: even when the trigger callback throws, every distress call received
\* is acknowledged and nothing is thrown into the transport's handler.
C3_AckDespiteThrow ==
    /\ \A k \in DistressCalls : AcksOf(k) # {}
    /\ ~rethrown

\* The system as the disarm of a started session leaves it.
Disarmed ==
    /\ sentinelRef # 0
    /\ sentinel[sentinelRef].stopCalled
    /\ sentinel[sentinelRef].mediaStream = "stopped"
    /\ ~app.isArmed
    /\ app.status = "IDLE"

\* A step of toggleArm, the one entry point for arming and disarming.
ToggleArmStep ==
    \/ Disarm
    \/ \E c \in Contacts : ArmRefused(c)
    \/ \E i \in Sessions, c \in Contacts : ArmBegin(i, c)

\* C4: invoked again on the system a disarm left, the disarm operation
\* leaves the status IDLE, acquires no resource and starts no session.
C4_SecondDisarmIsNoOp ==
    [][(Disarmed /\ ToggleArmStep) =>
          (app'.status = "IDLE" /\ UNCHANGED <<pc, cam, sentinelRef, conn>>)]_vars

\* C5: a disarm while ARMED or DANGER stops the session (guard flag off,
\* microphone tracks stopped, audio context closing), releases the wake lock
\* it holds, and leaves volume 0, blackout off, armed flag false, status IDLE.
C5_DisarmStopsAndResets ==
    [][(Disarm /\ app.status \in {"ARMED", "DANGER"}) =>
          /\ sentinelRef # 0
          /\ ~sentinel'[sentinelRef].isConnected
          /\ sentinel'[sentinelRef].mediaStream # "live"
          /\ sentinel'[sentinelRef].audioContext # "running"
          /\ wakeLockRef' = 0
          /\ (wakeLockRef # 0 => lock'[wakeLockRef] = "released")
          /\ app'.volume = 0
          /\ ~app'.blackoutMode
          /\ ~app'.isArmed
          /\ app'.status = "IDLE"]_vars

\* A disarm of a connected session that held its wake lock has just run.
C5_Witness ==
    /\ sentinel[1].stopCalled /\ sentinel[1].mediaStream = "stopped"
    /\ sentinel[1].audioContext = "closing"
    /\ conn[1] = "open"
    /\ lock[1] = "released"
    /\ app.status = "IDLE" /\ ~app.isArmed /\ app.volume = 0

\* C6: no audio-frame callback of a session transmits a frame after stop()
\* was called on that session.
C6_NoFrameAfterStop == ~lastFrame.afterStop

\* No arm attempt is under way and the status is IDLE.
AtRest == app.status = "IDLE" /\ \A i \in Sessions : ~InProgress(i)

\* C7: at rest (disarmed, after a fatal error, after a failed start) no
\* camera stream, no microphone stream and no wake lock is held.
C7_NothingHeldAtRest ==
    AtRest => \A i \in Sessions :
                 /\ cam[i] # "live"
                 /\ sentinel[i].mediaStream # "live"
                 /\ lock[i] # "held"

\* C8: after a remote error the session is Disconnected, so no frame is
\* transmitted afterwards, and the controller is IDLE until armed again.
C8_ErrorDisconnects ==
    /\ \A i \in Sessions : conn[i] = "errored" => ~sentinel[i].isConnected
    /\ ~lastFrame.afterError

\* C9: the status becomes DANGER only from ARMED, and only in a step that
\* receives a tool invocation.
C9_DangerOnlyFromArmed ==
    [][(app'.status = "DANGER" /\ app.status # "DANGER") =>
          (app.status = "ARMED" /\ calls' # calls)]_vars

\* C10: while an arm attempt is under way or the system is armed, no further
\* arm attempt starts: no second camera request, session or connection.
C10_ArmRejectedWhileActive ==
    [][((\E i \in Sessions : InProgress(i)) \/ app.isArmed) =>
          \A j \in Sessions : pc[j] = "none" => pc'[j] = "none"]_vars

\* C11: an arm request with an empty contact name or phone ends in the same
\* step with the setup error shown and the status IDLE, and requests no
\* camera, no microphone and constructs no session.
C11_EmptyContactRefused ==
    [][(\E c \in Contacts : ArmRefused(c)) =>
          /\ app'.status = "IDLE"
          /\ app'.errorState =
                [show |-> TRUE, title |-> "Setup Required", message |-> SetupMessage]
          /\ ~(app'.contact.name /\ app'.contact.phone)
          /\ UNCHANGED <<pc, cam, videoSrc, sentinelRef, sentinel, conn>>]_vars

\* A refused arm request on a fresh system: the setup error, nothing acquired.
C11_Witness ==
    /\ app.errorState.show /\ app.errorState.title = "Setup Required"
    /\ app.status = "IDLE"
    /\ ~(app.contact.name /\ app.contact.phone)
    /\ \A i \in Sessions : pc[i] = "none" /\ cam[i] = "none" /\ conn[i] = "none"
    /\ sentinelRef = 0

\* The camera request of arm attempt i is rejected in this step.
CameraRejected(i) == pc[i] = "awaitCamera" /\ cam'[i] = "failed"

\* C12: when the camera request of an arm attempt fails, the status returns
\* to IDLE with the camera error record (its title, and the message of the
\* failure's kind), and that attempt constructs no session and never requests
\* the microphone.
C12_CameraFailureAborts ==
    /\ [][\A i \in Sessions : CameraRejected(i) =>
             /\ app'.status = "IDLE"
             /\ app'.errorState.show
             /\ app'.errorState.title = "Camera Permission Failed"
             /\ app'.errorState.message \in
                   {"You have blocked camera access.",
                    "No camera found on this device.",
                    "Your camera is currently in use by another application.",
                    "We need camera access to capture evidence during an emergency."}
             /\ pc'[i] = "done"
             /\ UNCHANGED <<sentinelRef, sentinel, conn>>]_vars
    /\ [](\A i \in Sessions : cam[i] = "failed" =>
             /\ pc[i] = "done"
             /\ sentinelRef # i
             /\ sentinel[i] = NewSentinel
             /\ conn[i] = "none")

\* The camera was refused for want of permission: IDLE, the camera error shown.
C12_Witness ==
    /\ cam[1] = "failed"
    /\ app.status = "IDLE"
    /\ app.errorState.title = "Camera Permission Failed"
    /\ app.errorState.message = "You have blocked camera access."
    /\ sentinelRef = 0 /\ conn[1] = "none"

\* An arm attempt has just started: toggleArm passed the contact test and
\* awaits the camera.
ArmStarted == pc[1] = "awaitCamera"

\* The arm click takes the status from IDLE to CONNECTING, and the status
\* becomes ARMED only in a step in which a connection opens (the connect
\* callback).
ArmedOnlyByConnect ==
    /\ [][(pc[1] = "none" /\ pc'[1] # "none") =>
             (app.status = "IDLE" /\ app'.status = "CONNECTING")]_vars
    /\ [][(app'.status = "ARMED" /\ app.status # "ARMED") =>
             \E i \in Sessions : conn[i] = "connecting" /\ conn'[i] = "open"]_vars

\* C13 as stated: with a complete contact and the camera, the microphone and
\* the connection all succeeding, the status passes IDLE, CONNECTING, ARMED,
\* ARMED is entered only by the connect callback, and the wake lock is
\* eventually held.
C13_ArmReachesArmedAndLock ==
    /\ ArmedOnlyByConnect
    /\ ArmStarted ~> (app.status = "ARMED")
    /\ ArmStarted ~> (lock[1] = "held")

\* C13 amended: the same, the wake lock being eventually held unless the
\* platform refuses the request.
C13_ArmReachesArmedLockIfGranted ==
    /\ ArmedOnlyByConnect
    /\ ArmStarted ~> (app.status = "ARMED")
    /\ ArmStarted ~> (lock[1] \in {"held", "refused"})

\* Armed and connected, the wake lock granted and referenced.
C13_Witness ==
    /\ app.status = "ARMED" /\ app.isArmed
    /\ conn[1] = "open"
    /\ lock[1] = "held" /\ wakeLockRef = 1

\* A step in which the trigger callback ran: an alert pipeline started.
TriggerStep == pipelines' \ pipelines # {}

\* A step in which an alert pipeline logged its entry.
LogStep == Len(app'.logs) > Len(app.logs)

\* C14: a trigger with the silent-mode setting off sets the status DANGER and
\* clears the blackout flag; a trigger with the setting on leaves both as they
\* are; either way the pipeline's log entry is prepended and its notification
\* emitted, the entry's isSilent being the silent-mode setting.
C14_SilentModeDecidesDisplay ==
    /\ [][TriggerStep =>
             IF app.silentMode
             THEN app'.status = app.status /\ app'.blackoutMode = app.blackoutMode
             ELSE app'.status = "DANGER" /\ ~app'.blackoutMode]_vars
    /\ [][LogStep =>
             /\ app'.logs[1].isSilent = app.silentMode
             /\ app'.logs[1].call \in notifications']_vars

\* The alert pipeline of call k is suspended in its evidence capture.
Pending(k) == \E p \in pipelines : p.call = k

\* The alert pipeline of call k has logged its entry and emitted its
\* notification.
Completed(k) == LogsOf(k) # {} /\ k \in notifications

\* C15: every alert pipeline started eventually prepends its log entry and
\* emits its notification, whatever happens to the transport or the armed
\* state while its evidence capture is pending (error, close, disarm) and
\* whatever the outcome of the location and image captures.
C15_PipelineCompletes ==
    \A k \in 1..MaxInvocations : Pending(k) ~> Completed(k)

\* A pipeline completed without location and without image on a system that
\* was disarmed and whose connection has closed.
C15_Witness ==
    /\ Completed(1)
    /\ app.logs[Len(app.logs)].call = 1
    /\ app.logs[Len(app.logs)].location = "Unknown Location"
    /\ app.logs[Len(app.logs)].imageUrl = ""
    /\ sentinel[1].stopCalled
    /\ conn[1] = "closed"
    /\ pipelines = {}

\* C16: captureEvidence never rejects, and for every outcome of the
\* geolocation lookup and of the photo the pipeline resumes with a result
\* whose location is "Unknown Location" exactly when the lookup did not
\* succeed and whose imageUrl is empty exactly when the photo did not
\* succeed, neither depending on the other.
C16_EvidenceNeverRaises ==
    [][\A p \in pipelines, geo \in GeoOutcomes, img \in ImgOutcomes :
          EvidenceSettled(p, geo, img) =>
             /\ ~captureEvidence(geo, img).raised
             /\ Len(app'.logs) = Len(app.logs) + 1
             /\ (app'.logs[1].location = "Unknown Location") <=> (geo # "ok")
             /\ (app'.logs[1].imageUrl = "") <=> (img # "ok")]_vars

\* One capture found the location and took no photo; another took the photo
\* and found no location.
C16_Witness ==
    /\ Len(app.logs) = 2
    /\ app.logs[1].location # "Unknown Location" /\ app.logs[1].imageUrl = ""
    /\ app.logs[2].location = "Unknown Location" /\ app.logs[2].imageUrl # ""

\* The microphone request of session i is rejected in this step (start()'s
\* catch runs), or its connection fails in this step.
MicRejected(i) ==
    pc[i] = "awaitMic" /\ pc'[i] = "done" /\ sentinel'[i].mediaStream = "null"
ConnectionFails(i) == conn[i] # "errored" /\ conn'[i] = "errored"

\* C17: a start() that fails invokes the session's error callback exactly
\* once for that attempt: each failure (the microphone refused for want of
\* permission, for want of a device, or because the device is busy, and a
\* connection error) invokes it once, and no session's callback is invoked
\* twice.
C17_ErrorCallbackOnce ==
    /\ [][\A i \in Sessions : (MicRejected(i) \/ ConnectionFails(i)) =>
             onErrorCalls'[i] = onErrorCalls[i] + 1]_vars
    /\ [](\A i \in Sessions :
             /\ onErrorCalls[i] <= 1
             /\ (conn[i] = "errored" => onErrorCalls[i] = 1)
             /\ (pc[i] = "done" /\ cam[i] = "live" /\ sentinel[i].mediaStream = "null"
                    => onErrorCalls[i] = 1))

\* The microphone was refused: one error callback, the busy-device message.
C17_Witness ==
    /\ pc[1] = "done" /\ cam[1] = "live" /\ sentinel[1].mediaStream = "null"
    /\ onErrorCalls[1] = 1
    /\ app.errorState.message = "Microphone is in use by another app."

\* stop() is called on session i in this step (the disarm branch calls it on
\* the session sentinelRef refers to).
StopCalled(i) == Disarm /\ sentinelRef = i

\* C18: stop() is total and idempotent: on a session in any state (never
\* started, connecting, connected, already stopped) it leaves the session
\* disconnected, and calling it again changes nothing more.
C18_StopIdempotent ==
    /\ [](\A i \in Sessions :
             /\ ~stop(sentinel[i]).isConnected
             /\ stop(stop(sentinel[i])) = stop(sentinel[i]))
    /\ [][\A i \in Sessions : StopCalled(i) =>
             /\ sentinel'[i] = stop(sentinel[i])
             /\ ~sentinel'[i].isConnected
             /\ stop(sentinel'[i]) = sentinel'[i]]_vars

\* stop() has run on a session that never started (its microphone was
\* refused) and on a session that was still connecting.
C18_Witness ==
    /\ sentinel[1].stopCalled /\ sentinel[1].mediaStream = "null"
    /\ sentinel[2].stopCalled /\ sentinel[2].mediaStream = "stopped"
    /\ conn[2] = "connecting"

\* C19: the alert log is append-only and its entries are immutable: every
\* step leaves the log as it was or puts one new entry in front of the
\* unchanged previous entries; arming, disarming, error surfacing and the
\* transport's events leave it as it was.
C19_LogAppendOnly ==
    [][/\ \/ app'.logs = app.logs
          \/ /\ Len(app'.logs) = Len(app.logs) + 1
             /\ Tail(app'.logs) = app.logs
       /\ (ToggleArmStep \/ ErrorStep \/ (conn' # conn) \/ (sentinel' # sentinel))
             => app'.logs = app.logs]_vars

\* Two entries are in the log of a system that was disarmed and then
\* surfaced an error.
C19_Witness ==
    /\ Len(app.logs) = 2
    /\ sentinel[1].stopCalled
    /\ conn[1] = "errored"
    /\ app.errorState.show
    /\ ~app.isArmed

\* C20: the acknowledgment of a tool invocation does not wait for that
\* invocation's alert pipeline, and is never sent before the invocation was
\* received: every acknowledgment names a call already received, and a call
\* whose pipeline is still suspended in evidence capture is already
\* acknowledged.
C20_AckDoesNotWait ==
    /\ \A x \in 1..Len(acks) : acks[x] \in 1..Len(calls)
    /\ \A p \in pipelines : AcksOf(p.call) # {}
    /\ \A k \in DistressCalls : AcksOf(k) # {}

\* A call is acknowledged while its evidence capture is pending.
C20_Witness ==
    /\ acks = <<1>>
    /\ \E p \in pipelines : p.call = 1
    /\ LogsOf(1) = {}

\* C21: the wake lock is held only while the system is armed: once the status
\* is IDLE and no wake-lock request is pending, no wake lock is held,
\* however the request made by the connect callback interleaves with a
\* disarm or an error.
C21_NoLockWhenIdle ==
    (app.status = "IDLE" /\ \A i \in Sessions : lock[i] # "pending")
        => \A i \in Sessions : lock[i] # "held"

\* C22: within evidence capture the photo does not wait for the location
\* lookup: no alert pipeline is suspended on its location lookup with its
\* photo still to be taken.
C22_PhotoDoesNotWait ==
    \A p \in pipelines : p.photo # "notTaken"

\* C23: the alert log is ordered most-recent-first by receipt: of any two
\* entries, the one nearer the head belongs to the invocation received
\* later, also when overlapping pipelines settle in another order.
C23_LogNewestFirst ==
    \A x, y \in 1..Len(app.logs) : x < y => app.logs[x].call > app.logs[y].call

\* C24: the audio-frame callback forwards a volume sample on every frame,
\* whatever the session state: wherever a frame can be delivered, its
\* handler sets the volume to the frame's sample.
C24_VolumeOnEveryFrame ==
    \A i \in Sessions, average \in Samples :
        sentinel[i].audioContext \in {"running", "closing"} =>
            ENABLED (OnAudioProcess(i, average) /\ app'.volume = average)

\* The remote end closes the connection of session i.
RemoteClose(i) == conn[i] # "closed" /\ conn'[i] = "closed"

\* The system is armed and the connection of its session is closed.
ArmedAfterClose ==
    /\ app.isArmed
    /\ app.status \in {"ARMED", "DANGER"}
    /\ sentinelRef # 0
    /\ conn[sentinelRef] = "closed"

\* C25: a remote close received while armed changes no controller state
\* (status, armed flag, wake lock, volume, log), and afterwards the status
\* becomes IDLE only in a disarm.
C25_CloseChangesNothing ==
    /\ [][(app.isArmed /\ \E i \in Sessions : RemoteClose(i)) =>
             UNCHANGED <<app, wakeLockRef, lock>>]_vars
    /\ [][(ArmedAfterClose /\ app'.status = "IDLE") => Disarm]_vars

\* The connection of an armed session that holds its wake lock was closed.
C25_Witness ==
    /\ ArmedAfterClose
    /\ wakeLockRef = 1
    /\ lock[1] = "held"
    /\ app.status = "ARMED"

\* C26: once a disarm has completed, until the next arm request no event of
\* the stopped session (a remote open after stop(), a tool invocation, a
\* volume sample) moves the status away from IDLE, requests the wake lock
\* again, or moves the volume away from 0.
C26_StaysAtRestAfterDisarm ==
    [][(Disarmed /\ app.volume = 0 /\ ~ToggleArmStep) =>
          /\ app'.status = "IDLE"
          /\ app'.volume = 0
          /\ \A i \in Sessions :
                lock'[i] \in {"pending", "held"} => lock[i] \in {"pending", "held"}]_vars

\* C27: within one pipeline the silent-mode value is read once: the entry a
\* pipeline logs has isSilent false exactly when the trigger that started it
\* set the status DANGER and cleared the blackout flag, whatever the setting
\* was toggled to between arming and the trigger or while the evidence was
\* pending.
C27_SilentReadConsistently ==
    /\ [][TriggerStep =>
             \A p \in pipelines' \ pipelines :
                 p.loud <=> (app'.status = "DANGER" /\ ~app'.blackoutMode)]_vars
    /\ [][LogStep =>
             \A p \in pipelines \ pipelines' :
                 app'.logs[1].call = p.call /\ (app'.logs[1].isSilent <=> ~p.loud)]_vars

\* A pipeline has logged an entry whose isSilent differs from the setting,
\* which was toggled after the session was armed.
C27_Witness ==
    /\ Len(app.logs) >= 1
    /\ app.logs[1].isSilent # app.silentMode
    /\ app.logs[1].call \in notifications

\* C28: the trigger callback of a distress call is invoked before the call is
\* acknowledged, so an acknowledged call has a pipeline, pending or logged;
\* acknowledgments leave in the order the calls were received; a call with
\* another name is neither acknowledged nor given a pipeline.
C28_TriggerThenAckInOrder ==
    /\ \A x, y \in 1..Len(acks) : x < y => acks[x] < acks[y]
    /\ \A x \in 1..Len(acks) :
          /\ acks[x] \in DistressCalls
          /\ Pending(acks[x]) \/ LogsOf(acks[x]) # {}
    /\ \A k \in (1..Len(calls)) \ DistressCalls :
          /\ AcksOf(k) = {}
          /\ ~Pending(k)
          /\ LogsOf(k) = {}
    /\ \A m \in MessagesOf(BOOLEAN) :
          LET r == handleMessage(m, 1)
          IN \A x \in 1..Len(r.ack) : \E y \in 1..Len(r.trig) : r.trig[y] = r.ack[x]

\* A call with another name and then a distress call were received: the
\* distress call alone has a pipeline and an acknowledgment.
C28_Witness ==
    /\ Len(calls) = 2
    /\ calls[1] # DistressTool
    /\ calls[2] = DistressTool
    /\ acks = <<2>>
    /\ Pending(2)

====
